---- MODULE Spec2Model ----
(***************************************************************************)
(* Energy-balance simulation of a CubeSat electrical power system          *)
(* (eps_simulation.py): the main loop that advances the battery state of   *)
(* charge of every solar-panel configuration over the time grid.           *)
(*                                                                         *)
(* The script computes in floating point.  The model computes in fixed     *)
(* point, every product and quotient rounded to the nearest unit:          *)
(*   power                 1e-8 W       (W8 units per watt)                *)
(*   energy                1e-8 Wh      (W8 units per watt-hour)           *)
(*   state of charge       1e-9         (SOC1 units for a full battery)    *)
(*   projection factor     1e-7         (F7 units for 1.0)                 *)
(*   panel area            1e-6 m^2,  peak panel power 1e-6 W              *)
(*   percentages           1e-2                                            *)
(* Angles are kept exact as theta * orbit_period (an integer).  The        *)
(* effective capacity is kept exact, as whole energy units and a remainder *)
(* in seconds-per-year-ths of a unit, and the transmission reserve         *)
(* condition is evaluated on exact values.                                 *)
(***************************************************************************)
EXTENDS Integers, Sequences, FiniteSets

VARIABLES
    num_orbits,    \* mission length in orbits (line 10)
    fade_rate,     \* capacity fade per year, in percent (line 55)
    num_panels,    \* the panel-count list (line 21)
    SOC_min,       \* lower SOC bound (line 51)
    SOC_max,       \* upper SOC bound (line 52)
    SOC_init,      \* initial SOC (line 53)
    pc,            \* position of the script: "loop", "body", "done", "crashed"
    t,             \* time index of the outer loop (line 78)
    p,             \* number of configurations processed in row t (line 98)
    eclipse,       \* eclipse flag of step t: 0 in eclipse, 1 in sunlight
    f_theta,       \* projection factor of step t
    E_batt_eff,    \* effective battery capacity of step t: <<whole, remainder>>
    P_solar,       \* solar power of the configuration processed last
    P_load,        \* load of the configuration processed last
    TX_on,         \* transmission flag of the configuration processed last
    dE,            \* net energy of the configuration processed last
    SOC,           \* SOC[t][c]
    P_solar_hist,  \* P_solar_hist[t][c]
    P_load_hist,   \* P_load_hist[t]
    ref_c,         \* second run: its single panel count
    ref_t,         \* second run: last completed time index
    ref_SOC,       \* second run: SOC[t] of its single configuration
    ref_P_solar,   \* second run: P_solar_hist[t] of its single configuration
    ref_P_load,    \* second run: P_load
    ref_dE         \* second run: dE

cfgVars == <<num_orbits, fade_rate, num_panels, SOC_min, SOC_max, SOC_init>>
geomVars == <<eclipse, f_theta, E_batt_eff>>
histVars == <<SOC, P_solar_hist, P_load_hist>>
refVars == <<ref_c, ref_t, ref_SOC, ref_P_solar, ref_P_load, ref_dE>>
bodyVars == <<P_solar, P_load, TX_on, dE>>
vars == <<cfgVars, pc, t, p, geomVars, bodyVars, histVars, refVars>>

----------------------------------------------------------------------------
(* Fixed-point units *)

W8 == 10^8
SOC1 == 10^9
F7 == 10^7

\* the value of a name the script has not assigned yet
Unset == 0 - 1

Max(a, b) == IF a >= b THEN a ELSE b
Min(a, b) == IF a <= b THEN a ELSE b

\* the element of a one-element set; { e(v) : v \in {x} } computes x once,
\* before e
Only(S) == CHOOSE x \in S : TRUE

(* Multiplication kept as quotient and remainder by c, so that no            *)
(* intermediate value exceeds 2 * c.  AddQR(h, x, c), for h = <<q, r>> with   *)
(* r < c and 0 <= x < c, is <<q2, r2>> with q2 * c + r2 = 2 * (q * c + r) + x  *)
(* and r2 < c.                                                                 *)
AddQR(h, x, c) ==
    LET r2 == 2 * h[2]
        r2n == IF r2 >= c THEN r2 - c ELSE r2
        r3 == r2n + x
    IN  << 2 * h[1] + (IF r2 >= c THEN 1 ELSE 0) + (IF r3 >= c THEN 1 ELSE 0),
           IF r3 >= c THEN r3 - c ELSE r3 >>

\* the largest integer of the arithmetic
MaxInt == 2^30 + (2^30 - 1)

\* the multiplier is split into digits of this radix
Radix == 2^10

\* hi * Radix + lo for hi = <<q, r>> and lo, s the product r * Radix
JoinQR(hi, s, lo, c) ==
    << hi[1] * Radix + s[1] + lo[1] + (IF s[2] + lo[2] >= c THEN 1 ELSE 0),
       IF s[2] + lo[2] >= c THEN s[2] + lo[2] - c ELSE s[2] + lo[2] >>

\* <<q, r>> with q * c + r = a * b and r < c, for 0 <= a < c <= 2^30 and
\* b >= 0: directly when a * b is small, by doubling for a multiplier of one
\* digit, digit by digit otherwise
RECURSIVE MulQR(_, _, _)
MulQR(a, b, c) ==
    IF b = 0 THEN <<0, 0>>
    ELSE IF a <= MaxInt \div b THEN << (a * b) \div c, (a * b) % c >>
    ELSE IF b <= Radix
    THEN AddQR(MulQR(a, b \div 2, c), IF b % 2 = 1 THEN a ELSE 0, c)
    ELSE Only({ Only({ JoinQR(hi, s, lo, c) :
                         s \in { MulQR(hi[2], Radix, c) },
                         lo \in { MulQR(a, b % Radix, c) } }) :
                  hi \in { MulQR(a, b \div Radix, c) } })

\* a * b / c rounded to the nearest integer, for a, b >= 0 and 0 < c < 2^30:
\* directly when a * b is small, by MulQR otherwise
MulDiv(a, b, c) ==
    IF b = 0 \/ a <= (2^30 - c) \div b
    THEN (a * b + c \div 2) \div c
    ELSE LET qr == MulQR(a % c, b, c)
         IN  (a \div c) * b + qr[1] + (IF 2 * qr[2] >= c THEN 1 ELSE 0)

\* the same for a of either sign
SMulDiv(a, b, c) == IF a >= 0 THEN MulDiv(a, b, c) ELSE 0 - MulDiv(0 - a, b, c)

----------------------------------------------------------------------------
(* Time parameters, lines 8-12 *)

dt == 100
orbit_period == 95 * 60
t_end == num_orbits * orbit_period

\* len(np.arange(0, t_end, dt))
LenTime == (t_end + dt - 1) \div dt

\* the model follows a run through the rows below MaxN_t of its time grid
MaxN_t == 115

\* time[t]
time(i) == i * dt

(* Solar and panel parameters, lines 17-29 *)

G_sun == 1361
A_panel == 10 * 10
packing_eff == 50
eta_cell == 30
eta_mppt == 95
eta_wiring == 97

\* A_total[p] for a panel count n, in 1e-6 m^2
A_total(n) == n * A_panel * packing_eff

\* P_max[p] for a panel count n, in 1e-6 W
P_max(n) == G_sun * A_total(n)

(* Subsystem loads, lines 34-38 *)

P_OBC == 5 * (W8 \div 10)
P_ADCS == 8 * (W8 \div 10)
P_COMMS == 7 * (W8 \div 10)
P_PAYLOAD == 5 * (W8 \div 10)
P_load_nominal == P_OBC + P_ADCS + P_COMMS + P_PAYLOAD

(* TX parameters, lines 43-45 *)

P_TX == 15 * W8
TX_duration == 15 * 60

\* TX_theta_width * orbit_period
TX_theta_width == 360 * TX_duration

(* Battery parameters, lines 50-56 *)

E_battery == 10 * W8
\* self_discharge_per_day = 0.02 / 30, as a fraction
self_discharge_num == 2
self_discharge_den == 100 * 30

----------------------------------------------------------------------------
(* Orbital geometry, lines 61 and 80-88 *)

\* theta[t] * orbit_period
theta(i) == 360 * (time(i) % orbit_period)

\* math.cos(math.radians(theta - 45)) at the 57 grid angles of an orbit,
\* theta = 360 * k / 57 for k = 0..56, in 1e-7
CosTable ==
    << 7071068, 7806027, 8446231, 8983910, 9412536, 9726907, 9923206,
       9999051, 9953521, 9787168, 9502013, 9101516, 8590540, 7975285,
       7263222, 6462992, 5584311, 4637844, 3635080, 2588190, 1509884,
       413250, -688401, -1781695, -2853362, -3890393, -4880200, -5810768,
       -6670801, -7449860, -8138487, -8728324, -9212211, -9584275, -9839998,
       -9976277, -9991458, -9885355, -9659258, -9315911, -8859481, -8295509,
       -7630841, -6873544, -6032813, -5118850, -4142753, -3116367, -2052153,
       -963029, 137785, 1236926, 2321053, 3377006, 4391966, 5353614,
       6250276 >>

\* math.cos(theta_eff) of step i
cos_theta_eff(i) == CosTable[((time(i) % orbit_period) \div dt) + 1]

\* the eclipse arc entered late, at 180 degrees
EclipseOfLate(i) ==
    IF 180 * orbit_period < theta(i) /\ theta(i) < 270 * orbit_period
    THEN 0 ELSE 1

\* eclipse = 0 if (120 < theta_i < 270) else 1
EclipseOf(i) ==
    IF 120 * orbit_period < theta(i) /\ theta(i) < 270 * orbit_period
    THEN 0 ELSE 1

\* f_theta = max(0.6 + 0.4 * cos(theta_eff), 0.0)
F_thetaOf(i) == Max(6 * (F7 \div 10) + SMulDiv(cos_theta_eff(i), 4, 10), 0)

(* Battery fade, lines 90-96, at mission time tm seconds for a fade of     *)
(* rate percent per year.  The capacity is exact: <<w, f>> stands for      *)
(* w + f / year_s energy units, 0 <= f < year_s.                           *)

\* 3600 * 24 * 365, the seconds of mission_years = 1
year_s == 3600 * 24 * 365

\* 0.3 * E_battery
E_floor == << 30 * (E_battery \div 100), 0 >>

\* fade_rate * time[t] (percent times seconds) as <<q, r>>, q * year_s + r
FadeQR(rate, tm) ==
    Only({ << (rate \div year_s) * tm + ft[1], ft[2] >> :
              ft \in { MulQR(rate % year_s, tm, year_s) } })

\* E_battery * (1 - fade_rate * mission_years) for fade_rate * time[t] = qr:
\* the capacity lost is (E_battery / 100) * (q + r / year_s)
E_batt_lin(qr) ==
    Only({ IF part[2] = 0
           THEN << E_battery - (E_battery \div 100) * qr[1] - part[1], 0 >>
           ELSE << E_battery - (E_battery \div 100) * qr[1] - part[1] - 1,
                   year_s - part[2] >> :
              part \in { MulQR(qr[2], E_battery \div 100, year_s) } })

\* max(E, 0.3 * E_battery)
AtLeastFloor(E) == IF E[1] < E_floor[1] THEN E_floor ELSE E

\* the fade without its floor
E_batt_effOfNoFloor(rate, tm) ==
    Only({ E_batt_lin(qr) : qr \in { FadeQR(rate, tm) } })

\* lines 91-96; a loss of 70 percent or more (q >= 70) is at the floor
\* whatever the remainder
E_batt_effOf(rate, tm) ==
    Only({ IF qr[1] >= 100 - 30
           THEN E_floor
           ELSE Only({ AtLeastFloor(E) : E \in { E_batt_lin(qr) } }) :
              qr \in { FadeQR(rate, tm) } })

\* the capacity rounded to the nearest energy unit
Nearest(E) == E[1] + (IF 2 * E[2] >= year_s THEN 1 ELSE 0)

(* Solar power, lines 101-108 *)

P_solarOf(n, f, ecl) ==
    MulDiv(MulDiv(P_max(n), eta_cell * eta_mppt * eta_wiring, 10^4), f, F7) * ecl

\* safe mode entered at the threshold itself
BaseLoadAtThreshold(soc_prev) ==
    IF soc_prev <= 30 * (SOC1 \div 100) THEN P_OBC ELSE P_load_nominal

(* Base load, lines 110-114 *)

BaseLoad(soc_prev) ==
    IF soc_prev < 30 * (SOC1 \div 100) THEN P_OBC ELSE P_load_nominal

(* TX feasibility, lines 116-126 *)

\* x * E for a fraction x in SOC1 units and a capacity E = <<w, f>>, exact:
\* <<u, m, b>> stands for u + (m + b / year_s) / SOC1 energy units,
\* 0 <= m < SOC1, 0 <= b < year_s
Part(x, E) ==
    Only({ << (x \div SOC1) * E[1] + a[1] + (a[2] + b[1]) \div SOC1,
              (a[2] + b[1]) % SOC1,
              b[2] >> :
              a \in { MulQR(x % SOC1, E[1], SOC1) },
              b \in { MulQR(E[2], x, year_s) } })

E_batt_available(soc_prev, E) == Part(soc_prev, E)
E_TX == MulDiv(P_TX, TX_duration, 3600)
E_load_TX == MulDiv(P_load_nominal, TX_duration, 3600)
E_reserve(E) == Part(30 * (SOC1 \div 100), E)

\* The previous SOC values at which the two sides of line 125 are equal as
\* exact values and the double arithmetic of the script makes the left side
\* the larger (E_batt_eff being the double lines 91-96 compute on the time
\* grid); at the other equalities it does not.
TieTrue ==
    { 739453125, 741504000, 756250000, 792187500, 804000000, 811000000,
      840000000, 847500000, 862500000, 900000000, 913200000, 915234375,
      925000000 }

\* the reserve condition of line 125 for a reserve res = <<u, m, b>>:
\* E_batt_available - E_load_TX > res + E_TX
ReserveOk(soc_prev, E, res) ==
    \E avail \in { E_batt_available(soc_prev, E) } : \E r \in { res } :
        \/ avail[1] - E_load_TX > r[1] + E_TX
        \/ /\ avail[1] - E_load_TX = r[1] + E_TX
           /\ \/ avail[2] > r[2]
              \/ avail[2] = r[2] /\ avail[3] > r[3]
              \/ avail[2] = r[2] /\ avail[3] = r[3] /\ soc_prev \in TieTrue

\* transmission outside the window
TX_onOfNoWindow(ecl, i, soc_prev, E) ==
    /\ ecl = 1
    /\ ReserveOk(soc_prev, E, E_reserve(E))

\* transmission without the reserve condition
TX_onOfNoReserve(ecl, i, soc_prev, E) ==
    /\ ecl = 1
    /\ 0 <= theta(i) /\ theta(i) <= TX_theta_width

TX_onOf(ecl, i, soc_prev, E) ==
    /\ ecl = 1
    /\ 0 <= theta(i) /\ theta(i) <= TX_theta_width
    /\ ReserveOk(soc_prev, E, E_reserve(E))

(* Energy balance, lines 131-134 *)

DeltaE(solar, load) ==
    LET net == SMulDiv(solar - load, dt, 3600)
    IN  IF net > 0 THEN MulDiv(net, 95, 100) ELSE net

\* a clip that forgets the upper bound
ClipNoUpper(x, lo, hi) == Max(x, lo)

\* np.clip(x, lo, hi)
Clip(x, lo, hi) == Min(Max(x, lo), hi)

\* SOC[t, p] *= (1 - self_discharge_per_day * dt / (3600 * 24))
SelfDischarge(s) ==
    s - SMulDiv(s, self_discharge_num * dt, self_discharge_den * 3600 * 24)

\* the update with the clip applied before the self-discharge
NewSOCClipFirst(soc_prev, net, E, lo, hi) ==
    SelfDischarge(Clip(soc_prev + SMulDiv(net, SOC1, Nearest(E)), lo, hi))

(* SOC update, lines 136-141 *)

NewSOC(soc_prev, net, E, lo, hi) ==
    Clip(SelfDischarge(soc_prev + SMulDiv(net, SOC1, Nearest(E))), lo, hi)

----------------------------------------------------------------------------
(* State, lines 66-73 *)

N_t == LenTime
N_p == Len(num_panels)

\* the rows of the arrays the model keeps: those a followed run can write
KeptRows == Min(N_t, MaxN_t)

\* np.zeros((N_t, N_p)) with row 0 set to v
Rows(np, v) ==
    [i \in 0..(KeptRows - 1) |-> [c \in 1..np |-> IF i = 0 THEN v ELSE 0]]

\* a mission of one orbit, and the script's hundred
OrbitChoices == { 1, 100 }

\* the script's 20 percent per year, and 3000 (percent: 300000), with which
\* the capacity meets its floor at step 74
FadeRates == { 20, 300000 }

SOCInits ==
    { 20 * (SOC1 \div 100), 30 * (SOC1 \div 100), 60 * (SOC1 \div 100),
      80 * (SOC1 \div 100), 99 * (SOC1 \div 100) }

PanelLists ==
    { <<1, 2, 3, 4, 5, 6>>, <<6, 5, 4, 3, 2, 1>>, <<4>>, <<0, 3>> }

InitRun ==
    /\ pc = "loop"
    /\ t = 0
    /\ p = 0
    /\ eclipse = Unset
    /\ f_theta = Unset
    /\ E_batt_eff = <<Unset, 0>>
    /\ P_solar = Unset
    /\ P_load = Unset
    /\ TX_on = FALSE
    /\ dE = Unset
    /\ SOC = Rows(N_p, SOC_init)
    /\ P_solar_hist = Rows(N_p, 0)
    /\ P_load_hist = [i \in 0..(KeptRows - 1) |-> 0]

NoRef ==
    /\ ref_c = 0
    /\ ref_t = 0
    /\ ref_SOC = <<>>
    /\ ref_P_solar = <<>>
    /\ ref_P_load = Unset
    /\ ref_dE = Unset

Init ==
    /\ num_orbits \in OrbitChoices
    /\ fade_rate = 20
    /\ num_panels \in PanelLists
    /\ SOC_min = 20 * (SOC1 \div 100)
    /\ SOC_max = 99 * (SOC1 \div 100)
    /\ SOC_init \in SOCInits
    /\ InitRun
    /\ NoRef

----------------------------------------------------------------------------
(* Main simulation loop, lines 78-145 *)

\* for t in range(1, N_t): the geometry and fade of the step, lines 78-96
StepBegin ==
    /\ pc = "loop"
    /\ t + 1 < N_t
    /\ t + 1 < MaxN_t
    /\ t' = t + 1
    /\ eclipse' = EclipseOf(t + 1)
    /\ f_theta' = F_thetaOf(t + 1)
    /\ E_batt_eff' = E_batt_effOf(fade_rate, time(t + 1))
    /\ p' = 0
    /\ pc' = "body"
    /\ UNCHANGED <<cfgVars, bodyVars, histVars, refVars>>

\* the pass reading the previous SOC of the neighbouring column
ConfigStepNeighbour ==
    /\ pc = "body"
    /\ p < N_p
    /\ LET c == p + 1
           soc_prev == SOC[t - 1][Max(c - 1, 1)]
       IN  /\ P_solar' = P_solarOf(num_panels[c], f_theta, eclipse)
           /\ TX_on' = TX_onOf(eclipse, t, soc_prev, E_batt_eff)
           /\ P_load' = BaseLoad(soc_prev) + (IF TX_on' THEN P_TX ELSE 0)
           /\ dE' = DeltaE(P_solar', P_load')
           /\ SOC' = [SOC EXCEPT ![t][c] =
                         NewSOC(soc_prev, dE', E_batt_eff, SOC_min, SOC_max)]
           /\ P_solar_hist' = [P_solar_hist EXCEPT ![t][c] = P_solar']
           /\ p' = c
    /\ UNCHANGED <<cfgVars, pc, t, geomVars, P_load_hist, refVars>>

\* one pass of "for p in range(N_p)", lines 98-143
ConfigStep ==
    /\ pc = "body"
    /\ p < N_p
    /\ LET c == p + 1
           soc_prev == SOC[t - 1][c]
       IN  /\ P_solar' = P_solarOf(num_panels[c], f_theta, eclipse)
           /\ TX_on' = TX_onOf(eclipse, t, soc_prev, E_batt_eff)
           /\ P_load' = BaseLoad(soc_prev) + (IF TX_on' THEN P_TX ELSE 0)
           /\ dE' = DeltaE(P_solar', P_load')
           /\ SOC' = [SOC EXCEPT ![t][c] =
                         NewSOC(soc_prev, dE', E_batt_eff, SOC_min, SOC_max)]
           /\ P_solar_hist' = [P_solar_hist EXCEPT ![t][c] = P_solar']
           /\ p' = c
    /\ UNCHANGED <<cfgVars, pc, t, geomVars, P_load_hist, refVars>>

\* the row's load taken from the first configuration instead of the last
RowEndFirst ==
    /\ pc = "body"
    /\ p = N_p
    /\ pc' = "loop"
    /\ P_load_hist' = [P_load_hist EXCEPT ![t] =
           BaseLoad(SOC[t - 1][1])
           + (IF TX_onOf(eclipse, t, SOC[t - 1][1], E_batt_eff) THEN P_TX ELSE 0)]
    /\ UNCHANGED <<cfgVars, t, p, geomVars, bodyVars, SOC, P_solar_hist,
                   refVars>>

\* P_load_hist[t] = P_load, line 145; a NameError when no configuration ran
RowEnd ==
    /\ pc = "body"
    /\ p = N_p
    /\ IF P_load = Unset
       THEN pc' = "crashed" /\ UNCHANGED P_load_hist
       ELSE pc' = "loop" /\ P_load_hist' = [P_load_hist EXCEPT ![t] = P_load]
    /\ UNCHANGED <<cfgVars, t, p, geomVars, bodyVars, SOC, P_solar_hist,
                   refVars>>

\* the time grid is exhausted
LoopExit ==
    /\ pc = "loop"
    /\ t + 1 >= N_t
    /\ pc' = "done"
    /\ UNCHANGED <<cfgVars, t, p, geomVars, bodyVars, histVars, refVars>>

Next == StepBegin \/ ConfigStep \/ RowEnd \/ LoopExit

Spec == Init /\ [][Next]_vars

----------------------------------------------------------------------------
(* The script run on configurations nobody validated: lines 8-56 assign    *)
(* the parameters and line 78 enters the loop with no check in between.    *)

BoundChoices == { 20 * (SOC1 \div 100), 99 * (SOC1 \div 100) }

CfgInit ==
    /\ num_orbits \in OrbitChoices
    /\ fade_rate = 20
    /\ num_panels \in PanelLists \cup { <<>> }
    /\ SOC_min \in BoundChoices
    /\ SOC_max \in BoundChoices
    /\ SOC_init \in SOCInits
    /\ InitRun
    /\ NoRef

CfgSpec == CfgInit /\ [][Next]_vars

\* what section 7 of the specification calls a valid configuration, for the
\* parameters CfgInit varies
ConfigValid == SOC_min < SOC_max /\ Len(num_panels) > 0

----------------------------------------------------------------------------
(* Two runs of the script side by side: the run above on num_panels, and a *)
(* second run whose panel list holds the single count ref_c.  The second   *)
(* run executes one whole time step (lines 78-145 with N_p = 1) each time  *)
(* the first has completed a row.                                          *)

RefStep ==
    /\ pc = "loop"
    /\ ref_t < t
    /\ \E E \in { E_batt_effOf(fade_rate, time(ref_t + 1)) } :
       LET i == ref_t + 1
           ecl == EclipseOf(i)
           f == F_thetaOf(i)
           soc_prev == ref_SOC[i - 1]
       IN  /\ ref_P_solar' = [ref_P_solar EXCEPT ![i] = P_solarOf(ref_c, f, ecl)]
           /\ ref_P_load' = BaseLoad(soc_prev)
                 + (IF TX_onOf(ecl, i, soc_prev, E) THEN P_TX ELSE 0)
           /\ ref_dE' = DeltaE(ref_P_solar'[i], ref_P_load')
           /\ ref_SOC' = [ref_SOC EXCEPT ![i] =
                             NewSOC(soc_prev, ref_dE', E, SOC_min, SOC_max)]
           /\ ref_t' = i
    /\ UNCHANGED <<cfgVars, pc, t, p, geomVars, bodyVars, histVars, ref_c>>

PairInit ==
    /\ num_orbits \in OrbitChoices
    /\ fade_rate = 20
    /\ num_panels \in PanelLists
    /\ SOC_min = 20 * (SOC1 \div 100)
    /\ SOC_max = 99 * (SOC1 \div 100)
    /\ SOC_init \in SOCInits
    /\ InitRun
    /\ ref_c \in { num_panels[c] : c \in 1..Len(num_panels) }
    /\ ref_t = 0
    /\ ref_SOC = [i \in 0..(KeptRows - 1) |-> IF i = 0 THEN SOC_init ELSE 0]
    /\ ref_P_solar = [i \in 0..(KeptRows - 1) |-> 0]
    /\ ref_P_load = Unset
    /\ ref_dE = Unset

PairNext ==
    \/ ref_t = t /\ StepBegin
    \/ ConfigStep
    \/ RowEnd
    \/ RefStep
    \/ ref_t = t /\ LoopExit

PairSpec == PairInit /\ [][PairNext]_vars

----------------------------------------------------------------------------
(* The script run on its own fade rate and on one that takes the capacity  *)
(* to its floor within the rows the model follows.  The capacity depends   *)
(* on the mission time through fade_rate * mission_years alone.            *)

FadeInit ==
    /\ num_orbits \in OrbitChoices
    /\ fade_rate \in FadeRates
    /\ num_panels \in PanelLists
    /\ SOC_min = 20 * (SOC1 \div 100)
    /\ SOC_max = 99 * (SOC1 \div 100)
    /\ SOC_init \in SOCInits
    /\ InitRun
    /\ NoRef

FadeSpec == FadeInit /\ [][Next]_vars

----------------------------------------------------------------------------
(* Properties *)

\* the cell SOC[i][c] holds its final value: row 0, or written by the loop
Written(i, c) == i = 0 \/ i < t \/ (i = t /\ c <= p)

\* P_load and TX_on are those of configuration p of row t
Processed == t >= 1 /\ p >= 1 /\ pc \in {"body", "loop", "done"}

\* C1: every stored SOC, the initial row included, lies in [SOC_min, SOC_max].
C1_SOCWithinBounds ==
    \A i \in 0..(KeptRows - 1) : \A c \in 1..N_p :
        Written(i, c) => SOC_min <= SOC[i][c] /\ SOC[i][c] <= SOC_max

\* a loop-written cell saturated at SOC_max by the clip
C1_Witness ==
    /\ Processed
    /\ pc = "body"
    /\ SOC[t][p] = SOC_max
    /\ SOC[t - 1][p]
          + SMulDiv(DeltaE(P_solar_hist[t][p], P_load), SOC1, Nearest(E_batt_eff))
          > SOC_max + SOC_max \div 1000

\* C2: at a step whose angle lies strictly between 120 and 270 degrees the
\* recorded solar power of every configuration is 0; elsewhere it is >= 0.
C2_EclipseNoSolar ==
    \A i \in 0..(KeptRows - 1) : \A c \in 1..N_p :
        Written(i, c) =>
            /\ (120 * orbit_period < theta(i) /\ theta(i) < 270 * orbit_period)
                  => P_solar_hist[i][c] = 0
            /\ P_solar_hist[i][c] >= 0

\* a row just inside the eclipse arc (126.3 degrees) is complete, with a
\* configuration that generated power on the row before the arc
C2_Witness ==
    /\ t >= 21
    /\ \E c \in 1..N_p :
          /\ num_panels[c] > 0
          /\ P_solar_hist[19][c] > 0
          /\ P_solar_hist[20][c] = 0

\* C3: transmission power is in the load of the SOC update only if the eclipse
\* flag is 1, the angle is in [0, TX_theta_width] and
\* SOC[t-1,c] * E_batt_eff - E_load_TX > E_reserve + E_TX as line 125
\* evaluates it (which needs SOC[t-1,c] >= 0.7375, the capacity being at most
\* E_battery); with the reserve set to E_batt_eff the reserve condition never
\* holds.
C3_TXOnlyWhenFeasible ==
    Processed =>
        /\ (TX_on \/ P_load >= P_TX) =>
              /\ eclipse = 1
              /\ 0 <= theta(t) /\ theta(t) <= 360 * TX_duration
              /\ ReserveOk(SOC[t - 1][p], E_batt_eff,
                           Part(3 * (SOC1 \div 10), E_batt_eff))
              /\ SOC[t - 1][p] >= 7375 * (SOC1 \div 10000)
        /\ ~ReserveOk(SOC[t - 1][p], E_batt_eff, Part(SOC1, E_batt_eff))

\* a configuration transmitting on top of the nominal load
C3_Witness ==
    /\ Processed
    /\ TX_on
    /\ P_load = P_load_nominal + P_TX

\* C4: the baseline load is P_OBC when SOC[t-1,c] < 0.30 and the nominal sum
\* when SOC[t-1,c] >= 0.30.
C4_BaselineLoad ==
    Processed =>
        P_load - (IF TX_on THEN P_TX ELSE 0) =
            IF SOC[t - 1][p] < 3 * (SOC1 \div 10)
            THEN P_OBC
            ELSE P_OBC + P_ADCS + P_COMMS + P_PAYLOAD

\* a previous SOC of exactly 0.30 got the nominal load
C4_Witness ==
    /\ Processed
    /\ SOC[t - 1][p] = 3 * (SOC1 \div 10)
    /\ P_load = P_load_nominal

\* C5: an invalid configuration is rejected before the first step: no SOC
\* entry of a row t >= 1 is computed from it.
C5_InvalidRejected == ~ConfigValid => ~(t >= 1 /\ p >= 1)

\* a capacity a is at most a capacity b
LeqE(a, b) == a[1] < b[1] \/ (a[1] = b[1] /\ a[2] <= b[2])

\* C6: the effective capacity never grows from a step to a later one, never
\* exceeds E_battery and is never below 0.3 * E_battery.
C6_FadeMonotoneBounded ==
    /\ [](t >= 1 =>
            /\ LeqE(<<3 * (E_battery \div 10), 0>>, E_batt_eff)
            /\ LeqE(E_batt_eff, <<E_battery, 0>>))
    /\ [][t >= 1 => LeqE(E_batt_eff', E_batt_eff)]_vars

\* a configuration processed at a step where the floor holds the capacity:
\* at 3000 percent per year the linear fade is below 0.3 * E_battery from
\* step 74 on
C6_Witness ==
    /\ Processed
    /\ fade_rate > 20
    /\ t >= 75
    /\ E_batt_eff = <<3 * (E_battery \div 10), 0>>

\* C7: configuration c's SOC and solar-power series are those of a run whose
\* panel list holds c's count alone, whatever the other configurations are.
C7_ConfigIndependent ==
    \A c \in 1..N_p :
        num_panels[c] = ref_c =>
            \A i \in 0..ref_t :
                /\ SOC[i][c] = ref_SOC[i]
                /\ P_solar_hist[i][c] = ref_P_solar[i]

\* both runs are complete, and another configuration of the first run ended
\* on a different SOC
C7_Witness ==
    /\ pc = "done"
    /\ ref_t = N_t - 1
    /\ t = N_t - 1
    /\ \E c \in 1..N_p : \E d \in 1..N_p :
          /\ num_panels[c] = ref_c
          /\ SOC[ref_t][c] # SOC_init
          /\ SOC[ref_t][d] # SOC[ref_t][c]
          /\ SOC[ref_t - 1][d] # SOC[ref_t - 1][c]

\* C8: dE = (P_solar - P_load) * dt / 3600 is scaled by 0.95 only when
\* positive, dE / E_batt_eff is added to SOC[t-1,c], the sum is multiplied by
\* the self-discharge factor, and the result is clamped last.
C8_UpdateOrder ==
    Processed =>
        LET raw == SMulDiv(P_solar_hist[t][p] - P_load, dt, 3600)
            net == IF raw > 0 THEN MulDiv(raw, 95, 100) ELSE raw
            sum == SOC[t - 1][p] + SMulDiv(net, SOC1, Nearest(E_batt_eff))
            kept == sum - SMulDiv(sum, 2 * dt, 100 * 30 * 86400)
        IN  SOC[t][p] = IF kept < SOC_min THEN SOC_min
                        ELSE IF kept > SOC_max THEN SOC_max
                        ELSE kept

\* a charging step whose sum, after self-discharge, was clamped to SOC_max
C8_Witness ==
    /\ Processed
    /\ pc = "body"
    /\ P_solar_hist[t][p] > P_load
    /\ SOC[t][p] = SOC_max
    /\ SOC[t - 1][p] < SOC_max

\* a complete row
RowDone(i) == i < t \/ (i = t /\ pc \in {"loop", "done"})

\* C9: P_load_hist[t] is the load computed at step t for the last
\* configuration of the list; P_load_hist[0] stays 0.
C9_LoadOfLastConfig ==
    /\ P_load_hist[0] = 0
    /\ \A i \in 1..(KeptRows - 1) :
          RowDone(i) =>
              LET prev == SOC[i - 1][N_p]
                  E == E_batt_effOf(fade_rate, time(i))
              IN  P_load_hist[i] =
                      BaseLoad(prev)
                      + (IF TX_onOf(EclipseOf(i), i, prev, E) THEN P_TX ELSE 0)

\* a complete row whose first configuration was in safe mode and whose last
\* configuration was not
C9_Witness ==
    /\ t >= 1
    /\ RowDone(t)
    /\ N_p >= 2
    /\ BaseLoad(SOC[t - 1][1]) = P_OBC
    /\ P_load_hist[t] = P_load_nominal

\* C10: with SOC[t-1,c] < 0.30 transmission is off, so the load is P_OBC,
\* P_load_nominal or P_load_nominal + P_TX, and is strictly positive.
C10_NoTXInSafeMode ==
    Processed =>
        /\ SOC[t - 1][p] < 3 * (SOC1 \div 10) => ~TX_on
        /\ P_load \in {P_OBC, P_load_nominal, P_load_nominal + P_TX}
        /\ P_load > 0

\* a safe-mode configuration inside the transmission window, in sunlight
C10_Witness ==
    /\ Processed
    /\ SOC[t - 1][p] < 3 * (SOC1 \div 10)
    /\ eclipse = 1
    /\ theta(t) <= 360 * TX_duration
    /\ P_load = P_OBC

====
